---- MODULE Spec2Model ----
(***************************************************************************)
(* The dataset attribute name transcoding of HTMLElement and the           *)
(* custom-attribute accessors built on it                                   *)
(* (src/components/script/dom/htmlelement.rs).                              *)
(*                                                                         *)
(* A string is a sequence of Unicode scalar values (naturals), which is    *)
(* what `chars()` iterates over.  An Option is a sequence of length 0      *)
(* (None) or 1 (Some(x)).                                                  *)
(***************************************************************************)
EXTENDS Integers, Sequences, FiniteSets, TLC

VARIABLES
    name,   \* the property name handed to the operation (a DOMString)
    attrs,  \* the element's attribute list: a sequence of [name, value]
    pc,     \* which operation has run: "start" before any
    attr,   \* the attribute local name produced by to_snake_case / given to to_camel_case
    prop,   \* the Option<DOMString> returned by to_camel_case
    res,    \* the ErrorResult of set_custom_attr: "Ok", "Syntax"; "none" before the call
    reattr, \* what to_snake_case returns for an attribute name it produced itself
    val,    \* the value handed to set_custom_attr in a sequence of calls
    got,    \* the Option<DOMString> returned by get_custom_attr
    props,  \* the Vec<DOMString> returned by supported_prop_names_custom_attr
    \* Click
    disabled,           \* per element: Element::disabled_state()
    click_in_progress,  \* per element: Element::click_in_progress()
    click_stack,        \* the elements whose Click is inside its event dispatch, outermost first
    clicks,             \* Click calls made so far
    fired,              \* per element: synthetic click events dispatched so far
    last_click,         \* how the last Click call went
    \* the window-reflecting event handlers
    kind,          \* what the element is: "body", "frameset" or "other"
    has_bc,        \* Document::has_browsing_context() of the element's document
    win_handlers,  \* per event: the handler on the document's window
    el_handlers,   \* per event: the handler on the element's own event target
    h_op,          \* the last handler call: "get" or "set"; "none" before any
    h_ev,          \* its event
    h_arg,         \* the listener handed to the setter
    h_ret,         \* the Option the getter returned
    \* SetInnerText
    input,         \* the DOMString handed to SetInnerText
    children,      \* the element's child nodes
    text_pc,       \* "start" before the call, "done" after
    \* the activation behaviour of summary
    parent_kind,   \* the element's parent: "none", "details" or "other"
    siblings,      \* the child nodes of the parent, the element among them
    self_at,       \* the element's index in siblings, 0 without a parent
    details_open,  \* the open state of the parent details element
    toggles,       \* calls of HTMLDetailsElement::toggle so far
    panicked,      \* an unwrap() met None
    activations,   \* calls of summary_activation_behavior so far
    \* cg.rs: to_css_identifier
    ident,         \* the identifier handed to to_css_identifier
    camel_case,    \* the `camel_case` slice: what is left to split
    css_first,     \* the `first` flag of the loop
    css,           \* the `result` String
    segments,      \* the segments split_camel_segment returned, in order
    css_pc         \* "start" before the call, "loop" inside it, "done" after

\* the variables of the other operations of the module, which the dataset
\* operations leave alone
clickVars == <<disabled, click_in_progress, click_stack, clicks, fired, last_click>>

handlerVars == <<kind, has_bc, win_handlers, el_handlers, h_op, h_ev, h_arg, h_ret>>

textVars == <<input, children, text_pc>>

summaryVars == <<parent_kind, siblings, self_at, details_open, toggles, panicked, activations>>

cssVars == <<ident, camel_case, css_first, css, segments, css_pc>>

OutsideSpec == <<val, got, props, clickVars, handlerVars, textVars, summaryVars, cssVars>>

vars == <<name, attrs, pc, attr, prop, res, reattr, OutsideSpec>>

-----------------------------------------------------------------------------
(* Bounds and input alphabets *)

\* longest property name drawn from the alphabet
MaxLen == 3

\* '-', '1', 'A', 'Z', 'a', 'w', 'x', 'z', U+00E9: both ends of every range the
\* code tests, a digit and a non-ASCII character
Alphabet == {45, 49, 65, 90, 97, 119, 120, 122, 233}

Strings(n) == UNION {[1..k -> Alphabet] : k \in 0..n}

\* "fooBar", "foo-bar", "foo", "Foo", "a--b", "data-"
Examples ==
    { <<102, 111, 111, 66, 97, 114>>,
      <<102, 111, 111, 45, 98, 97, 114>>,
      <<102, 111, 111>>,
      <<70, 111, 111>>,
      <<97, 45, 45, 98>>,
      <<100, 97, 116, 97, 45>> }

Names == Strings(MaxLen) \cup Examples

\* what precedes the drawn name in an attribute local name that reaches the
\* decoder: nothing, "data-", "nodata-", "data", "data-data-"
Prefixes ==
    { <<>>,
      <<100, 97, 116, 97, 45>>,
      <<110, 111, 100, 97, 116, 97, 45>>,
      <<100, 97, 116, 97>>,
      <<100, 97, 116, 97, 45, 100, 97, 116, 97, 45>> }

Values == {"v1", "v2"}

None == <<>>
Some(x) == <<x>>

-----------------------------------------------------------------------------
(* The other operations of the module, at rest *)

Elements == {"e1", "e2"}

\* most Click calls in a run
MaxClicks == 4

\* no Click has been called
ClickIdle ==
    /\ disabled = [e \in Elements |-> FALSE]
    /\ click_in_progress = [e \in Elements |-> FALSE]
    /\ click_stack = <<>>
    /\ clicks = 0
    /\ fired = [e \in Elements |-> 0]
    /\ last_click = "none"

\* the six handlers HTMLElement reflects to the window on body and frameset
Events == {"error", "load", "blur", "focus", "resize", "scroll"}

\* no handler getter or setter has been called on an ordinary element
HandlersIdle ==
    /\ kind = "other"
    /\ has_bc = TRUE
    /\ win_handlers = [ev \in Events |-> None]
    /\ el_handlers = [ev \in Events |-> None]
    /\ h_op = "none" /\ h_ev = "none" /\ h_arg = None /\ h_ret = None

\* SetInnerText has not been called on the childless element
TextIdle ==
    /\ input = <<>>
    /\ children = <<>>
    /\ text_pc = "start"

\* the element has no parent and has not been activated
SummaryIdle ==
    /\ parent_kind = "none"
    /\ siblings = <<>>
    /\ self_at = 0
    /\ details_open = FALSE
    /\ toggles = 0
    /\ panicked = FALSE
    /\ activations = 0

\* to_css_identifier has not been called
CssIdle ==
    /\ ident = <<>>
    /\ camel_case = <<>>
    /\ css_first = TRUE
    /\ css = <<>>
    /\ segments = <<>>
    /\ css_pc = "start"

-----------------------------------------------------------------------------
(* htmlelement.rs: the dataset attribute name transcoding *)

DATA_PREFIX == <<100, 97, 116, 97, 45>>

DATA_HYPHEN_SEPARATOR == 45

is_ascii_uppercase(c) == 65 <= c /\ c <= 90

\* variant: the full lowercase range 'a'..='z'
is_ascii_lowercase_full_range(c) == 97 <= c /\ c <= 122

is_ascii_lowercase(c) == 97 <= c /\ c <= 119

\* char::to_ascii_lowercase / char::to_ascii_uppercase as the code calls them
char_to_ascii_lowercase(c) == IF 65 <= c /\ c <= 90 THEN c + 32 ELSE c

char_to_ascii_uppercase(c) == IF 97 <= c /\ c <= 122 THEN c - 32 ELSE c

\* the `for ch in name.chars()` loop of to_snake_case, from character i on
RECURSIVE snake_loop(_, _, _)
snake_loop(s, i, attr_name) ==
    IF i > Len(s) THEN attr_name
    ELSE LET ch == s[i] IN
         IF is_ascii_uppercase(ch)
         THEN snake_loop(s, i + 1,
                  Append(Append(attr_name, DATA_HYPHEN_SEPARATOR),
                         char_to_ascii_lowercase(ch)))
         ELSE snake_loop(s, i + 1, Append(attr_name, ch))

\* variant: the separator is pushed but the letter keeps its case
RECURSIVE snake_loop_keep_case(_, _, _)
snake_loop_keep_case(s, i, attr_name) ==
    IF i > Len(s) THEN attr_name
    ELSE LET ch == s[i] IN
         IF is_ascii_uppercase(ch)
         THEN snake_loop_keep_case(s, i + 1,
                  Append(Append(attr_name, DATA_HYPHEN_SEPARATOR), ch))
         ELSE snake_loop_keep_case(s, i + 1, Append(attr_name, ch))

to_snake_case_keep_case(s) == snake_loop_keep_case(s, 1, DATA_PREFIX)

\* variant: the prefix is not pushed
to_snake_case_no_prefix(s) == snake_loop(s, 1, <<>>)

to_snake_case(s) == snake_loop(s, 1, DATA_PREFIX)

starts_with(s, p) == Len(s) >= Len(p) /\ SubSeq(s, 1, Len(p)) = p

\* variant: a hyphen with no character after it is dropped
RECURSIVE camel_loop_drop_trailing_hyphen(_, _, _)
camel_loop_drop_trailing_hyphen(s, i, result) ==
    IF i > Len(s) THEN result
    ELSE LET curr_char == s[i] IN
         IF curr_char = DATA_HYPHEN_SEPARATOR
         THEN IF i + 1 <= Len(s)
              THEN LET next_char == s[i + 1] IN
                   IF is_ascii_lowercase(next_char)
                   THEN camel_loop_drop_trailing_hyphen(s, i + 2,
                            Append(result, char_to_ascii_uppercase(next_char)))
                   ELSE camel_loop_drop_trailing_hyphen(s, i + 2,
                            Append(Append(result, curr_char), next_char))
              ELSE camel_loop_drop_trailing_hyphen(s, i + 1, result)
         ELSE camel_loop_drop_trailing_hyphen(s, i + 1, Append(result, curr_char))

\* variant: a hyphen not followed by a lowercase letter is emitted alone and
\* the character after it is scanned again
RECURSIVE camel_loop_hyphen_alone(_, _, _)
camel_loop_hyphen_alone(s, i, result) ==
    IF i > Len(s) THEN result
    ELSE LET curr_char == s[i] IN
         IF curr_char = DATA_HYPHEN_SEPARATOR /\ i + 1 <= Len(s)
                /\ is_ascii_lowercase(s[i + 1])
         THEN camel_loop_hyphen_alone(s, i + 2,
                  Append(result, char_to_ascii_uppercase(s[i + 1])))
         ELSE camel_loop_hyphen_alone(s, i + 1, Append(result, curr_char))

\* the `while let Some(curr_char) = name_chars.next()` loop of to_camel_case
RECURSIVE camel_loop(_, _, _)
camel_loop(s, i, result) ==
    IF i > Len(s) THEN result
    ELSE LET curr_char == s[i] IN
         IF curr_char = DATA_HYPHEN_SEPARATOR
         THEN IF i + 1 <= Len(s)
              THEN LET next_char == s[i + 1] IN
                   IF is_ascii_lowercase(next_char)
                   THEN camel_loop(s, i + 2,
                            Append(result, char_to_ascii_uppercase(next_char)))
                   ELSE camel_loop(s, i + 2,
                            Append(Append(result, curr_char), next_char))
              ELSE camel_loop(s, i + 1, Append(result, curr_char))
         ELSE camel_loop(s, i + 1, Append(result, curr_char))

\* variant: the uppercase test on the remainder is left out
to_camel_case_no_uppercase_test(s) ==
    IF ~starts_with(s, DATA_PREFIX) THEN None
    ELSE Some(camel_loop(SubSeq(s, 6, Len(s)), 1, <<>>))

\* variant: the prefix is stripped as long as the name starts with it
RECURSIVE strip_every_prefix(_)
strip_every_prefix(s) ==
    IF starts_with(s, DATA_PREFIX) THEN strip_every_prefix(SubSeq(s, 6, Len(s))) ELSE s

to_camel_case_strip_every_prefix(s) ==
    IF ~starts_with(s, DATA_PREFIX) THEN None
    ELSE LET rest == strip_every_prefix(s)
             has_uppercase == \E i \in 1..Len(rest) : is_ascii_uppercase(rest[i])
         IN  IF has_uppercase THEN None
             ELSE Some(camel_loop(rest, 1, <<>>))

to_camel_case(s) ==
    IF ~starts_with(s, DATA_PREFIX) THEN None
    ELSE LET rest == SubSeq(s, 6, Len(s))
             has_uppercase == \E i \in 1..Len(rest) : is_ascii_uppercase(rest[i])
         IN  IF has_uppercase THEN None
             ELSE Some(camel_loop(rest, 1, <<>>))

-----------------------------------------------------------------------------
(* htmlelement.rs: HTMLElement's custom-attribute operations *)

\* chars().skip_while(|&ch| ch != '\u{2d}'): the suffix from the first hyphen on
RECURSIVE skip_while_not_hyphen(_)
skip_while_not_hyphen(s) ==
    IF s = <<>> THEN <<>>
    ELSE IF Head(s) # 45 THEN skip_while_not_hyphen(Tail(s))
    ELSE s

\* Iterator::nth(n): the element n positions past the first, if any
nth(s, n) == IF Len(s) > n THEN Some(s[n + 1]) ELSE None

\* variant: the letter test uses is_ascii_lowercase
name_is_malformed_narrow_range(s) ==
    LET ch == nth(skip_while_not_hyphen(s), 1)
    IN  IF ch = None THEN FALSE ELSE is_ascii_lowercase(ch[1])

\* variant: nth(2), the character two positions past the hyphen
name_is_malformed_nth_2(s) ==
    LET ch == nth(skip_while_not_hyphen(s), 2)
    IN  IF ch = None THEN FALSE ELSE ch[1] >= 97 /\ ch[1] <= 122

\* the condition of the `if` that opens set_custom_attr
name_is_malformed(s) ==
    LET ch == nth(skip_while_not_hyphen(s), 1)
    IN  IF ch = None THEN FALSE ELSE ch[1] >= 97 /\ ch[1] <= 122

\* Element::set_custom_attribute: sets the first attribute of that local name,
\* or appends one.  Every name the model draws is a valid XML name once
\* prefixed with "data-", so the InvalidCharacter error does not arise.
Element_set_custom_attribute(as, n, v) ==
    IF \E i \in 1..Len(as) : as[i].name = n
    THEN LET first == CHOOSE i \in 1..Len(as) :
                         /\ as[i].name = n
                         /\ \A j \in 1..(i - 1) : as[j].name # n
         IN  [as EXCEPT ![first].value = v]
    ELSE Append(as, [name |-> n, value |-> v])

set_custom_attr(n, v) ==
    IF name_is_malformed(n)
    THEN /\ res' = "Syntax"
         /\ UNCHANGED attrs
    ELSE /\ attrs' = Element_set_custom_attribute(attrs, to_snake_case(n), v)
         /\ res' = "Ok"

\* Element::get_attribute in the null namespace: the first attribute of that
\* local name
Element_get_attribute(as, n) ==
    IF \E i \in 1..Len(as) : as[i].name = n
    THEN Some(as[CHOOSE i \in 1..Len(as) :
                    /\ as[i].name = n
                    /\ \A j \in 1..(i - 1) : as[j].name # n])
    ELSE None

\* Element::remove_attribute in the null namespace: drops the first attribute
\* of that local name, if there is one
Element_remove_attribute(as, n) ==
    IF \E i \in 1..Len(as) : as[i].name = n
    THEN LET first == CHOOSE i \in 1..Len(as) :
                         /\ as[i].name = n
                         /\ \A j \in 1..(i - 1) : as[j].name # n
         IN  SubSeq(as, 1, first - 1) \o SubSeq(as, first + 1, Len(as))
    ELSE as

\* variant: get_custom_attr applies the guard of set_custom_attr first
get_custom_attr_guarded(as, n) ==
    IF name_is_malformed(n) THEN None
    ELSE LET found == Element_get_attribute(as, to_snake_case(n))
         IN  IF found = None THEN None ELSE Some(found[1].value)

get_custom_attr(as, n) ==
    LET local_name == to_snake_case(n)
        found == Element_get_attribute(as, local_name)
    IN  IF found = None THEN None ELSE Some(found[1].value)

delete_custom_attr(as, n) ==
    LET local_name == to_snake_case(n)
    IN  Element_remove_attribute(as, local_name)

\* variant: the listing stops at the first attribute the decoder refuses
RECURSIVE supported_prop_names_until_refused(_)
supported_prop_names_until_refused(as) ==
    IF as = <<>> \/ to_camel_case(Head(as).name) = None THEN <<>>
    ELSE to_camel_case(Head(as).name) \o supported_prop_names_until_refused(Tail(as))

\* attrs().iter().filter_map(|attr| to_camel_case(&attr.local_name())).collect()
RECURSIVE supported_prop_names_custom_attr(_)
supported_prop_names_custom_attr(as) ==
    IF as = <<>> THEN <<>>
    ELSE LET raw_name == Head(as).name
             decoded == to_camel_case(raw_name)
         IN  decoded \o supported_prop_names_custom_attr(Tail(as))

-----------------------------------------------------------------------------
(* One call on an element *)

\* "class"
ClassAttr == <<99, 108, 97, 115, 115>>

\* attribute lists the element can hold when the call is made
InitAttrs(n) ==
    { <<>>,
      <<[name |-> to_snake_case(n), value |-> "v0"]>>,
      <<[name |-> ClassAttr, value |-> "v0"],
        [name |-> to_snake_case(n), value |-> "v0"]>> }

Init ==
    /\ name \in Names
    /\ attrs \in InitAttrs(name)
    /\ pc = "start"
    /\ attr = <<>>
    /\ prop = None
    /\ res = "none"
    /\ reattr = <<>>
    /\ val = "none" /\ got = None /\ props = <<>>
    /\ ClickIdle /\ HandlersIdle /\ TextIdle /\ SummaryIdle /\ CssIdle

\* to_snake_case(name)
ToSnakeCase ==
    /\ pc = "start"
    /\ attr' = to_snake_case(name)
    /\ pc' = "encoded"
    /\ UNCHANGED <<name, attrs, prop, res, reattr, OutsideSpec>>

\* to_camel_case applied to what to_snake_case returned
ToCamelCaseOfEncoded ==
    /\ pc = "encoded"
    /\ prop' = to_camel_case(attr)
    /\ pc' = "roundtrip"
    /\ UNCHANGED <<name, attrs, attr, res, reattr, OutsideSpec>>

\* to_camel_case applied to an attribute local name
ToCamelCase ==
    /\ pc = "start"
    /\ \E p \in Prefixes :
          /\ attr' = p \o name
          /\ prop' = to_camel_case(p \o name)
    /\ pc' = "decoded"
    /\ UNCHANGED <<name, attrs, res, reattr, OutsideSpec>>

\* to_snake_case applied to what to_snake_case returned
ToSnakeCaseOfEncoded ==
    /\ pc = "encoded"
    /\ reattr' = to_snake_case(attr)
    /\ pc' = "reencoded"
    /\ UNCHANGED <<name, attrs, attr, prop, res, OutsideSpec>>

\* to_snake_case applied to what to_camel_case returned for an attribute
\* local name it accepted
ToSnakeCaseOfDecoded ==
    /\ pc = "decoded"
    /\ prop # None
    /\ reattr' = to_snake_case(prop[1])
    /\ pc' = "decoded_encoded"
    /\ UNCHANGED <<name, attrs, attr, prop, res, OutsideSpec>>

SetCustomAttr ==
    /\ pc = "start"
    /\ \E v \in Values : set_custom_attr(name, v)
    /\ pc' = "set"
    /\ UNCHANGED <<name, attr, prop, reattr, OutsideSpec>>

Next ==
    \/ ToSnakeCase
    \/ ToCamelCaseOfEncoded
    \/ ToCamelCase
    \/ ToSnakeCaseOfEncoded
    \/ ToSnakeCaseOfDecoded
    \/ SetCustomAttr

Spec == Init /\ [][Next]_vars

-----------------------------------------------------------------------------
(* A sequence of dataset calls on one element *)

\* most attributes the element holds in a sequence of calls
MaxAttrs == 3

\* the property names the calls use: "fooBar", "foo-bar", "Z", "-z", "a", "-A",
\* "--a".
\* "foo-bar" encodes to the attribute of "fooBar", "-z" to that of "Z" and
\* "--a" to that of "-A".
ElemNames ==
    { <<102, 111, 111, 66, 97, 114>>,
      <<102, 111, 111, 45, 98, 97, 114>>,
      <<90>>,
      <<45, 122>>,
      <<97>>,
      <<45, 65>>,
      <<45, 45, 97>> }

\* attribute lists the element has from its markup: none; class; data-Foo and
\* data-foo-bar; nodata-foo and data-a
MarkupAttrs ==
    { <<>>,
      <<[name |-> ClassAttr, value |-> "v0"]>>,
      <<[name |-> <<100, 97, 116, 97, 45, 70, 111, 111>>, value |-> "v0"],
        [name |-> <<100, 97, 116, 97, 45, 102, 111, 111, 45, 98, 97, 114>>, value |-> "v0"]>>,
      <<[name |-> <<110, 111, 100, 97, 116, 97, 45, 102, 111, 111>>, value |-> "v0"],
        [name |-> <<100, 97, 116, 97, 45, 97>>, value |-> "v0"]>> }

\* what a sequence of dataset calls leaves alone
OutsideDataset == <<attr, prop, reattr, clickVars, handlerVars, textVars, summaryVars, cssVars>>

DatasetInit ==
    /\ attrs \in MarkupAttrs
    /\ name = <<>>
    /\ pc = "start"
    /\ res = "none" /\ val = "none" /\ got = None /\ props = <<>>
    /\ attr = <<>> /\ prop = None /\ reattr = <<>>
    /\ ClickIdle /\ HandlersIdle /\ TextIdle /\ SummaryIdle /\ CssIdle

DatasetSet ==
    /\ \E n \in ElemNames, v \in Values :
          /\ set_custom_attr(n, v)
          /\ name' = n
          /\ val' = v
    /\ Len(attrs') <= MaxAttrs
    /\ pc' = "set"
    /\ got' = None /\ props' = <<>>
    /\ UNCHANGED OutsideDataset

DatasetGet ==
    /\ \E n \in ElemNames :
          /\ got' = get_custom_attr(attrs, n)
          /\ name' = n
    /\ pc' = "get"
    /\ res' = "none" /\ val' = "none" /\ props' = <<>>
    /\ UNCHANGED <<attrs, OutsideDataset>>

DatasetDelete ==
    /\ \E n \in ElemNames :
          /\ attrs' = delete_custom_attr(attrs, n)
          /\ name' = n
    /\ pc' = "delete"
    /\ res' = "none" /\ val' = "none" /\ got' = None /\ props' = <<>>
    /\ UNCHANGED OutsideDataset

DatasetNames ==
    /\ props' = supported_prop_names_custom_attr(attrs)
    /\ name' = <<>>
    /\ pc' = "names"
    /\ res' = "none" /\ val' = "none" /\ got' = None
    /\ UNCHANGED <<attrs, OutsideDataset>>

DatasetNext ==
    \/ DatasetSet
    \/ DatasetGet
    \/ DatasetDelete
    \/ DatasetNames

SpecDataset == DatasetInit /\ [][DatasetNext]_vars

-----------------------------------------------------------------------------
(* Click calls, from script and from inside click event handlers *)

\* no dataset call has been made
DatasetIdle ==
    /\ name = <<>> /\ attrs = <<>> /\ pc = "start"
    /\ attr = <<>> /\ prop = None /\ res = "none" /\ reattr = <<>>
    /\ val = "none" /\ got = None /\ props = <<>>

datasetVars == <<name, attrs, pc, attr, prop, res, reattr, val, got, props>>

OutsideClick == <<datasetVars, handlerVars, textVars, summaryVars, cssVars>>

ClickInit ==
    /\ ClickIdle
    /\ DatasetIdle /\ HandlersIdle /\ TextIdle /\ SummaryIdle /\ CssIdle

\* variant: Click without the click_in_progress test
Click_enter_no_progress_test(e) ==
    IF disabled[e]
    THEN /\ last_click' = "disabled"
         /\ UNCHANGED <<click_in_progress, click_stack, fired>>
    ELSE /\ click_in_progress' = [click_in_progress EXCEPT ![e] = TRUE]
         /\ click_stack' = Append(click_stack, e)
         /\ fired' = [fired EXCEPT ![e] = @ + 1]
         /\ last_click' = "dispatched"

\* Click from its entry to the call of fire_synthetic_mouse_event_not_trusted
Click_enter(e) ==
    IF disabled[e]
    THEN /\ last_click' = "disabled"
         /\ UNCHANGED <<click_in_progress, click_stack, fired>>
    ELSE IF click_in_progress[e]
    THEN /\ last_click' = "in_progress"
         /\ UNCHANGED <<click_in_progress, click_stack, fired>>
    ELSE /\ click_in_progress' = [click_in_progress EXCEPT ![e] = TRUE]
         /\ click_stack' = Append(click_stack, e)
         /\ fired' = [fired EXCEPT ![e] = @ + 1]
         /\ last_click' = "dispatched"

\* Click after fire_synthetic_mouse_event_not_trusted has returned
Click_leave(e) ==
    /\ click_in_progress' = [click_in_progress EXCEPT ![e] = FALSE]
    /\ click_stack' = SubSeq(click_stack, 1, Len(click_stack) - 1)
    /\ last_click' = "returned"
    /\ UNCHANGED fired

\* script, or a handler of the event being dispatched, calls Click
CallClick ==
    /\ clicks < MaxClicks
    /\ \E e \in Elements : Click_enter(e)
    /\ clicks' = clicks + 1
    /\ UNCHANGED <<disabled, OutsideClick>>

\* the innermost dispatch is over and its Click returns
ReturnFromClick ==
    /\ click_stack # <<>>
    /\ Click_leave(click_stack[Len(click_stack)])
    /\ UNCHANGED <<disabled, clicks, OutsideClick>>

\* script, or a handler, enables or disables an element
SetDisabled ==
    /\ \E e \in Elements, b \in BOOLEAN :
          /\ disabled[e] # b
          /\ disabled' = [disabled EXCEPT ![e] = b]
    /\ UNCHANGED <<click_in_progress, click_stack, clicks, fired, last_click, OutsideClick>>

ClickNext ==
    \/ CallClick
    \/ ReturnFromClick
    \/ SetDisabled

SpecClick == ClickInit /\ [][ClickNext]_vars

-----------------------------------------------------------------------------
(* htmlelement.rs: the window-reflecting event handlers *)

\* the listeners a setter is handed: null or a function
Listeners == {None, Some("h1")}

is_body_or_frameset(k) == k = "body" \/ k = "frameset"

\* GetOnerror, GetOnload, GetOnblur, GetOnfocus, GetOnresize, GetOnscroll; the
\* window's getter and get_event_handler_common return what the target holds
GetOn(ev) ==
    IF is_body_or_frameset(kind)
    THEN IF has_bc THEN win_handlers[ev] ELSE None
    ELSE el_handlers[ev]

\* variant: without a browsing context the setter falls back to the element
SetOn_falls_back_to_element(ev, listener) ==
    IF is_body_or_frameset(kind) /\ has_bc
    THEN /\ win_handlers' = [win_handlers EXCEPT ![ev] = listener]
         /\ UNCHANGED el_handlers
    ELSE /\ el_handlers' = [el_handlers EXCEPT ![ev] = listener]
         /\ UNCHANGED win_handlers

\* SetOnerror, SetOnload, SetOnblur, SetOnfocus, SetOnresize, SetOnscroll; the
\* window's setter, set_error_event_handler and set_event_handler_common store
\* the listener on their target
SetOn(ev, listener) ==
    IF is_body_or_frameset(kind)
    THEN IF has_bc
         THEN /\ win_handlers' = [win_handlers EXCEPT ![ev] = listener]
              /\ UNCHANGED el_handlers
         ELSE UNCHANGED <<win_handlers, el_handlers>>
    ELSE /\ el_handlers' = [el_handlers EXCEPT ![ev] = listener]
         /\ UNCHANGED win_handlers

OutsideHandlers == <<datasetVars, clickVars, textVars, summaryVars, cssVars>>

\* the element is of any kind; the window and the element's own event target
\* hold no handlers or handlers set earlier by other means
HandlersInit ==
    /\ kind \in {"body", "frameset", "other"}
    /\ has_bc \in BOOLEAN
    /\ win_handlers \in {[ev \in Events |-> None], [ev \in Events |-> Some("h0")]}
    /\ el_handlers \in {[ev \in Events |-> None], [ev \in Events |-> Some("h0")]}
    /\ h_op = "none" /\ h_ev = "none" /\ h_arg = None /\ h_ret = None
    /\ DatasetIdle /\ ClickIdle /\ TextIdle /\ SummaryIdle /\ CssIdle

CallGetOn ==
    /\ \E ev \in Events :
          /\ h_ret' = GetOn(ev)
          /\ h_ev' = ev
    /\ h_op' = "get"
    /\ h_arg' = None
    /\ UNCHANGED <<kind, has_bc, win_handlers, el_handlers, OutsideHandlers>>

CallSetOn ==
    /\ \E ev \in Events, listener \in Listeners :
          /\ SetOn(ev, listener)
          /\ h_ev' = ev
          /\ h_arg' = listener
    /\ h_op' = "set"
    /\ h_ret' = None
    /\ UNCHANGED <<kind, has_bc, OutsideHandlers>>

\* the document leaves its browsing context
DiscardBrowsingContext ==
    /\ has_bc
    /\ has_bc' = FALSE
    /\ h_op' = "discard" /\ h_ev' = "none" /\ h_arg' = None /\ h_ret' = None
    /\ UNCHANGED <<kind, win_handlers, el_handlers, OutsideHandlers>>

HandlersNext ==
    \/ CallGetOn
    \/ CallSetOn
    \/ DiscardBrowsingContext

SpecHandlers == HandlersInit /\ [][HandlersNext]_vars

-----------------------------------------------------------------------------
(* htmlelement.rs: SetInnerText *)

\* longest input handed to SetInnerText
MaxTextLen == 4

\* U+000A, U+000D, 'a', 'b'
TextAlphabet == {10, 13, 97, 98}

TextInputs == UNION {[1..k -> TextAlphabet] : k \in 0..MaxTextLen}

BrNode == [kind |-> "br", data |-> <<>>]

TextNode(text) == [kind |-> "text", data |-> text]

\* append_text_node_to_fragment
append_text_node_to_fragment(fragment, text) == Append(fragment, TextNode(text))

\* variant: the line feed of a CR LF pair is not skipped
RECURSIVE inner_text_loop_no_skip(_, _, _, _)
inner_text_loop_no_skip(s, i, text, fragment) ==
    IF i > Len(s)
    THEN IF text # <<>> THEN append_text_node_to_fragment(fragment, text) ELSE fragment
    ELSE LET ch == s[i] IN
         IF ch = 10 \/ ch = 13
         THEN LET flushed == IF text # <<>>
                             THEN append_text_node_to_fragment(fragment, text)
                             ELSE fragment
              IN  inner_text_loop_no_skip(s, i + 1, <<>>, Append(flushed, BrNode))
         ELSE inner_text_loop_no_skip(s, i + 1, Append(text, ch), fragment)

\* steps 6 of SetInnerText: the loop over `position`, from character i on, and
\* the flush of the last text after it
RECURSIVE inner_text_loop(_, _, _, _)
inner_text_loop(s, i, text, fragment) ==
    IF i > Len(s)
    THEN IF text # <<>> THEN append_text_node_to_fragment(fragment, text) ELSE fragment
    ELSE LET ch == s[i] IN
         IF ch = 10 \/ ch = 13
         THEN LET after == IF ch = 13 /\ i + 1 <= Len(s) /\ s[i + 1] = 10
                           THEN i + 2
                           ELSE i + 1
                  flushed == IF text # <<>>
                             THEN append_text_node_to_fragment(fragment, text)
                             ELSE fragment
              IN  inner_text_loop(s, after, <<>>, Append(flushed, BrNode))
         ELSE inner_text_loop(s, i + 1, Append(text, ch), fragment)

OutsideText == <<datasetVars, clickVars, handlerVars, summaryVars, cssVars>>

\* the element is childless or has a text or a br child
TextInit ==
    /\ input \in TextInputs
    /\ children \in {<<>>, <<TextNode(<<111>>)>>, <<BrNode, TextNode(<<111>>)>>}
    /\ text_pc = "start"
    /\ DatasetIdle /\ ClickIdle /\ HandlersIdle /\ SummaryIdle /\ CssIdle

\* SetInnerText(input); Node::replace_all puts the fragment's nodes in place of
\* the element's children
SetInnerText ==
    /\ text_pc = "start"
    /\ children' = inner_text_loop(input, 1, <<>>, <<>>)
    /\ text_pc' = "done"
    /\ UNCHANGED <<input, OutsideText>>

TextNext == SetInnerText

SpecText == TextInit /\ [][TextNext]_vars

-----------------------------------------------------------------------------
(* htmlelement.rs: the activation behaviour of summary elements *)

\* most children of the parent node
MaxChildren == 3

\* most activations in a run
MaxActivations == 2

TextChild == [node |-> "text", local_name |-> ""]

ElementChild(n) == [node |-> "element", local_name |-> n]

ChildNodes == {TextChild, ElementChild("summary"), ElementChild("div")}

\* Node::child_elements: the positions of the children that are elements
child_elements(nodes) == {i \in 1..Len(nodes) : nodes[i].node = "element"}

\* Iterator::find over child_elements: the first element child named summary
\* as Some(position), or None
find_summary(nodes) ==
    LET found == {i \in child_elements(nodes) : nodes[i].local_name = "summary"}
    IN  IF found = {} THEN None
        ELSE Some(CHOOSE i \in found : \A j \in found : i <= j)

\* variant: any summary child of a details element counts
is_summary_for_its_parent_details_any_summary(pk, nodes, self) ==
    IF pk = "none" THEN FALSE
    ELSE IF pk # "details" THEN FALSE
    ELSE nodes[self].local_name = "summary"

\* is_summary_for_its_parent_details
is_summary_for_its_parent_details(pk, nodes, self) ==
    IF pk = "none" THEN FALSE
    ELSE IF pk # "details" THEN FALSE
    ELSE LET first_summary_element == find_summary(nodes)
         IN  IF first_summary_element = None THEN FALSE
             ELSE first_summary_element[1] = self

OutsideSummary == <<datasetVars, clickVars, handlerVars, textVars, cssVars>>

\* HTMLDetailsElement::toggle
HTMLDetailsElement_toggle ==
    /\ details_open' = ~details_open
    /\ toggles' = toggles + 1

\* the element is parentless, or an element child of a details element or of
\* another element
SummaryInit ==
    /\ parent_kind \in {"none", "details", "other"}
    /\ IF parent_kind = "none"
       THEN siblings = <<>> /\ self_at = 0
       ELSE /\ siblings \in UNION {[1..k -> ChildNodes] : k \in 1..MaxChildren}
            /\ self_at \in child_elements(siblings)
    /\ details_open \in BOOLEAN
    /\ toggles = 0
    /\ panicked = FALSE
    /\ activations = 0
    /\ DatasetIdle /\ ClickIdle /\ HandlersIdle /\ TextIdle /\ CssIdle

\* summary_activation_behavior; an unwrap of None panics
summary_activation_behavior ==
    /\ ~panicked
    /\ activations < MaxActivations
    /\ activations' = activations + 1
    /\ IF ~is_summary_for_its_parent_details(parent_kind, siblings, self_at)
       THEN UNCHANGED <<details_open, toggles, panicked>>
       ELSE IF parent_kind = "none" \/ parent_kind # "details"
            THEN panicked' = TRUE /\ UNCHANGED <<details_open, toggles>>
            ELSE HTMLDetailsElement_toggle /\ UNCHANGED panicked
    /\ UNCHANGED <<parent_kind, siblings, self_at, OutsideSummary>>

SummaryNext == summary_activation_behavior

SpecSummary == SummaryInit /\ [][SummaryNext]_vars

-----------------------------------------------------------------------------
(* derive_common/cg.rs: to_css_identifier *)

\* longest identifier drawn from IdentAlphabet
MaxIdentLen == 4

\* 'M', 'o', 'z', 'B', '_', and U+00C9, an uppercase letter outside ASCII
IdentAlphabet == {77, 111, 122, 66, 95, 201}

\* "FooBar", "MozBar", "Webkit", "WebkitFoo", "Servo", "ServoX", "Mozilla",
\* "Foo__", "fooBar"
IdentExamples ==
    { <<70, 111, 111, 66, 97, 114>>,
      <<77, 111, 122, 66, 97, 114>>,
      <<87, 101, 98, 107, 105, 116>>,
      <<87, 101, 98, 107, 105, 116, 70, 111, 111>>,
      <<83, 101, 114, 118, 111>>,
      <<83, 101, 114, 118, 111, 88>>,
      <<77, 111, 122, 105, 108, 108, 97>>,
      <<70, 111, 111, 95, 95>>,
      <<102, 111, 111, 66, 97, 114>> }

Idents == IdentExamples \cup UNION {[1..k -> IdentAlphabet] : k \in 0..MaxIdentLen}

\* char::is_uppercase, on the characters of Idents
char_is_uppercase(c) == c \in 65..90 \/ c = 201

\* str::to_lowercase, on the characters of Idents
str_to_lowercase(s) ==
    [i \in 1..Len(s) |-> IF char_is_uppercase(s[i]) THEN s[i] + 32 ELSE s[i]]

\* str::trim_end_matches('_')
RECURSIVE trim_end_matches(_, _)
trim_end_matches(s, c) ==
    IF s # <<>> /\ s[Len(s)] = c
    THEN trim_end_matches(SubSeq(s, 1, Len(s) - 1), c)
    ELSE s

\* end_position of split_camel_segment, counted in characters: the first
\* character is skipped, then the slice ends before the next uppercase one
split_end_position(s) ==
    LET index == 1
        upper == {p \in (index + 1)..Len(s) : char_is_uppercase(s[p])}
    IN  IF upper = {} THEN Len(s)
        ELSE (CHOOSE p \in upper : \A q \in upper : p <= q) - 1

\* split_camel_segment: the segment it returns, None for the empty slice
split_camel_segment(s) ==
    IF s = <<>> THEN None
    ELSE Some(SubSeq(s, 1, split_end_position(s)))

\* variant: only "Moz" is matched
is_vendor_segment_moz_only(segment) == segment = <<77, 111, 122>>

\* the match on "Moz" | "Webkit" | "Servo"
is_vendor_segment(segment) ==
    segment \in {<<77, 111, 122>>,
                 <<87, 101, 98, 107, 105, 116>>,
                 <<83, 101, 114, 118, 111>>}

OutsideCss == <<datasetVars, clickVars, handlerVars, textVars, summaryVars>>

CssInit ==
    /\ ident \in Idents
    /\ camel_case = <<>>
    /\ css_first = TRUE
    /\ css = <<>>
    /\ segments = <<>>
    /\ css_pc = "start"
    /\ DatasetIdle /\ ClickIdle /\ HandlersIdle /\ TextIdle /\ SummaryIdle

\* the entry of to_css_identifier, up to the loop
CssEnter ==
    /\ css_pc = "start"
    /\ camel_case' = trim_end_matches(ident, 95)
    /\ css_first' = TRUE
    /\ css' = <<>>
    /\ css_pc' = "loop"
    /\ UNCHANGED <<ident, segments, OutsideCss>>

\* one turn of the loop: split_camel_segment returned Some(segment)
CssSegment ==
    /\ css_pc = "loop"
    /\ split_camel_segment(camel_case) # None
    /\ LET segment == split_camel_segment(camel_case)[1]
           first_after_match == IF css_first /\ is_vendor_segment(segment) THEN FALSE ELSE css_first
       IN  /\ camel_case' = SubSeq(camel_case, Len(segment) + 1, Len(camel_case))
           /\ css' = (IF ~first_after_match THEN Append(css, 45) ELSE css)
                          \o str_to_lowercase(segment)
           /\ css_first' = FALSE
           /\ segments' = Append(segments, segment)
    /\ UNCHANGED <<ident, css_pc, OutsideCss>>

\* split_camel_segment returned None: the loop ends and css is returned
CssReturn ==
    /\ css_pc = "loop"
    /\ split_camel_segment(camel_case) = None
    /\ css_pc' = "done"
    /\ UNCHANGED <<ident, camel_case, css_first, css, segments, OutsideCss>>

CssNext == CssEnter \/ CssSegment \/ CssReturn

\* a call that has started runs on
SpecCss == CssInit /\ [][CssNext]_vars /\ WF_vars(CssNext)

-----------------------------------------------------------------------------
(* Vocabulary of the properties, stated on strings directly *)

IsUpperAZ(c) == c \in 65..90
IsLowerAZ(c) == c \in 97..122

HasUpper(s) == \E i \in 1..Len(s) : IsUpperAZ(s[i])

\* some hyphen of s is immediately followed by a lowercase ASCII letter
HyphenThenLower(s) ==
    \E i \in 1..(Len(s) - 1) : s[i] = 45 /\ IsLowerAZ(s[i + 1])

\* the index of the first hyphen of s, 0 when s has none
FirstHyphen(s) ==
    IF \E i \in 1..Len(s) : s[i] = 45
    THEN CHOOSE i \in 1..Len(s) : s[i] = 45 /\ \A j \in 1..(i - 1) : s[j] # 45
    ELSE 0

\* the character k positions past the first hyphen of s is a lowercase ASCII letter
LowerPastFirstHyphen(s, k) ==
    /\ FirstHyphen(s) > 0
    /\ FirstHyphen(s) + k <= Len(s)
    /\ IsLowerAZ(s[FirstHyphen(s) + k])

\* s round-trips: decoding its encoding gives it back
RoundTrips(s) == to_camel_case(to_snake_case(s)) = Some(s)

-----------------------------------------------------------------------------
(* Round trip: encode, then decode *)

\* C1 as stated: every name without an uppercase ASCII letter round-trips.
\* Fails for "-a": "data--a" decodes to "A".
C1_RoundTripNoUpper_AsStated ==
    (pc = "roundtrip" /\ ~HasUpper(name)) => prop = Some(name)

\* C1, amended: every name that has no uppercase ASCII letter and no hyphen
\* immediately followed by a lowercase ASCII letter round-trips:
\* to_camel_case(to_snake_case(s)) = Some(s).
C1_RoundTripNoUpperNoHyphenLower ==
    (pc = "roundtrip" /\ ~HasUpper(name) /\ ~HyphenThenLower(name))
        => prop = Some(name)

\* a name with hyphens, none before a lowercase letter, has been round-tripped
C1_Witness ==
    /\ pc = "roundtrip"
    /\ ~HasUpper(name) /\ ~HyphenThenLower(name)
    /\ \E i \in 1..Len(name) : name[i] = 45
    /\ Len(name) >= 2
    /\ prop = Some(name)

\* C2: every name in which no hyphen is immediately followed by a lowercase
\* ASCII letter (names with uppercase letters included) round-trips.
\* Fails for "Z": "data-z" decodes to "-z", 'z' being outside 'a'..='w'.
C2_RoundTripNoHyphenLower ==
    (pc = "roundtrip" /\ ~HyphenThenLower(name)) => prop = Some(name)

-----------------------------------------------------------------------------
(* The guard of set_custom_attr against the round trip *)

\* C3: every name that does not round-trip is rejected with the Syntax error.
\* Fails for "Z": the guard accepts it and it does not round-trip.
C3_GuardRejectsEveryNonRoundTrip ==
    (pc = "set" /\ ~RoundTrips(name)) => res = "Syntax"

\* C4: every name rejected with the Syntax error is one that does not
\* round-trip.  Fails for "-x": rejected, yet "data--x" decodes to "-x".
C4_RejectedNamesDoNotRoundTrip ==
    (pc = "set" /\ res = "Syntax") => ~RoundTrips(name)

\* C5: set_custom_attr returns the Syntax error exactly when the name has a
\* hyphen and the character right after its first hyphen is in 'a'..='z'
\* ("foo-bar" is rejected, "fooBar" is not), and a call that returns the
\* error leaves the element's attribute list as it was.
C5_SyntaxIffLowerAfterFirstHyphen ==
    /\ [](pc = "set" =>
            /\ (res = "Syntax") <=> LowerPastFirstHyphen(name, 1)
            /\ res \in {"Syntax", "Ok"}
            /\ name = <<102, 111, 111, 45, 98, 97, 114>> => res = "Syntax"
            /\ name = <<102, 111, 111, 66, 97, 114>> => res = "Ok")
    /\ [][(pc' = "set" /\ res' = "Syntax") => attrs' = attrs]_vars

\* a name is rejected on an element that already holds attributes
C5_Witness ==
    /\ pc = "set"
    /\ res = "Syntax"
    /\ LowerPastFirstHyphen(name, 1)
    /\ Len(attrs) = 2

\* C6 as stated: every name whose character two positions past the first
\* hyphen is in 'a'..='z' is rejected.  Fails for "-1a".
C6_RejectsLowerTwoPastFirstHyphen_AsStated ==
    (pc = "set" /\ LowerPastFirstHyphen(name, 2)) => res = "Syntax"

\* C6, amended: every name whose character one position past the first
\* hyphen is a lowercase ASCII letter in the full 'a'..='z' range is rejected
\* with the Syntax error.
C6_RejectsLowerOnePastFirstHyphen ==
    (pc = "set" /\ LowerPastFirstHyphen(name, 1)) => res = "Syntax"

\* a name with 'z' right after its first hyphen, and a character that is no
\* lowercase letter two positions past it, has been rejected
C6_Witness ==
    /\ pc = "set"
    /\ FirstHyphen(name) > 0
    /\ FirstHyphen(name) + 2 <= Len(name)
    /\ name[FirstHyphen(name) + 1] = 122
    /\ ~LowerPastFirstHyphen(name, 2)
    /\ res = "Syntax"

-----------------------------------------------------------------------------
(* The encoder and the decoder, each on its own *)

\* s begins with the five characters d, a, t, a, '-'
HasDataPrefix(s) ==
    /\ Len(s) >= 5
    /\ s[1] = 100 /\ s[2] = 97 /\ s[3] = 116 /\ s[4] = 97 /\ s[5] = 45

\* the decoder has run on attr, leaving its result in prop
Decoded == pc \in {"decoded", "roundtrip"}

\* C7: to_camel_case returns None exactly when its input does not start with
\* "data-" or has an uppercase ASCII letter after the first 5 characters, and
\* Some(_) for every other input; "data-Foo" and "nodata-foo" give None.
C7_NoneIffNoPrefixOrUppercase ==
    Decoded =>
        /\ (prop = None) <=>
              \/ ~HasDataPrefix(attr)
              \/ \E i \in 6..Len(attr) : IsUpperAZ(attr[i])
        /\ prop # None => Len(prop) = 1
        /\ attr = <<100, 97, 116, 97, 45, 70, 111, 111>> => prop = None
        /\ attr = <<110, 111, 100, 97, 116, 97, 45, 102, 111, 111>> => prop = None

\* "data-Foo" has been refused by the decoder
C7_Witness ==
    /\ pc = "decoded"
    /\ attr = <<100, 97, 116, 97, 45, 70, 111, 111>>
    /\ prop = None

\* the number of uppercase ASCII letters among the first n characters of s
UppersBefore(s, n) == Cardinality({j \in 1..n : IsUpperAZ(s[j])})

\* C8: to_snake_case returns "data-" followed by the input with each uppercase
\* ASCII letter replaced by a hyphen and its lowercase letter and every other
\* character kept, in order; the output has 5 + len(input) + (number of
\* uppercase letters) characters; "fooBar" gives "data-foo-bar".
C8_EncoderOutput ==
    pc = "encoded" =>
        /\ Len(attr) = 5 + Len(name) + UppersBefore(name, Len(name))
        /\ HasDataPrefix(attr)
        /\ \A i \in 1..Len(name) :
              LET at == 5 + i + UppersBefore(name, i - 1) IN
              IF IsUpperAZ(name[i])
              THEN attr[at] = 45 /\ attr[at + 1] = name[i] + 32
              ELSE attr[at] = name[i]
        /\ name = <<102, 111, 111, 66, 97, 114>>
              => attr = <<100, 97, 116, 97, 45, 102, 111, 111, 45, 98, 97, 114>>

\* "fooBar" has been encoded
C8_Witness ==
    /\ pc = "encoded"
    /\ name = <<102, 111, 111, 66, 97, 114>>
    /\ attr = <<100, 97, 116, 97, 45, 102, 111, 111, 45, 98, 97, 114>>

\* position i of the remainder r is one the scan stops at: the first one, the
\* one after a non-hyphen it stopped at, or the one two past a hyphen it stopped at
RECURSIVE ScanStopsAt(_, _)
ScanStopsAt(r, i) ==
    \/ i = 1
    \/ i >= 2 /\ r[i - 1] # 45 /\ ScanStopsAt(r, i - 1)
    \/ i >= 3 /\ r[i - 2] = 45 /\ ScanStopsAt(r, i - 2)

\* what C9 has the scan emit when it stops at position i
EmittedAt(r, i) ==
    IF r[i] = 45 /\ i < Len(r)
    THEN IF r[i + 1] \in 97..119
         THEN <<r[i + 1] - 32>>
         ELSE <<45, r[i + 1]>>
    ELSE <<r[i]>>

RECURSIVE EmittedFrom(_, _)
EmittedFrom(r, i) ==
    IF i > Len(r) THEN <<>>
    ELSE (IF ScanStopsAt(r, i) THEN EmittedAt(r, i) ELSE <<>>) \o EmittedFrom(r, i + 1)

\* C9: for an accepted input the decoder scans the remainder left to right; at
\* a hyphen followed by c it emits the uppercase of c when c is in 'a'..='w'
\* and the hyphen and c unchanged otherwise (x, y, z, digits, non-ASCII), and
\* consumes both; every other character it reaches is emitted unchanged.
\* "data-foo-bar" decodes to Some("fooBar").
C9_DecoderScan ==
    (Decoded /\ prop # None) =>
        /\ prop[1] = EmittedFrom(SubSeq(attr, 6, Len(attr)), 1)
        /\ attr = <<100, 97, 116, 97, 45, 102, 111, 111, 45, 98, 97, 114>>
              => prop = Some(<<102, 111, 111, 66, 97, 114>>)

\* "data-foo-bar" has been decoded
C9_Witness ==
    /\ pc = "decoded"
    /\ attr = <<100, 97, 116, 97, 45, 102, 111, 111, 45, 98, 97, 114>>
    /\ prop = Some(<<102, 111, 111, 66, 97, 114>>)

\* C10: a hyphen immediately followed by another hyphen is emitted as two
\* literal hyphens and both are consumed, so the second hyphen starts no
\* hyphen-letter pair: when the first hyphen of the remainder is followed by a
\* hyphen, the result is what precedes them, the two hyphens, and the decoding
\* of what follows them; to_camel_case("data-a--b") = Some("a--b").
C10_DoubleHyphenLiteral ==
    (Decoded /\ prop # None) =>
        LET r == SubSeq(attr, 6, Len(attr))
            h == FirstHyphen(r)
        IN  /\ (h > 0 /\ h < Len(r) /\ r[h + 1] = 45)
                  => prop[1] = SubSeq(r, 1, h + 1)
                               \o to_camel_case(DATA_PREFIX \o SubSeq(r, h + 2, Len(r)))[1]
            /\ attr = <<100, 97, 116, 97, 45, 97, 45, 45, 98>>
                  => prop = Some(<<97, 45, 45, 98>>)

\* "data-a--b" has been decoded to "a--b"
C10_Witness ==
    /\ pc = "decoded"
    /\ attr = <<100, 97, 116, 97, 45, 97, 45, 45, 98>>
    /\ prop = Some(<<97, 45, 45, 98>>)

\* C11: for every accepted decoder input whose remainder ends with a hyphen the
\* decoded name ends with a literal hyphen too; to_camel_case("data-a-") =
\* Some("a-").
C11_TrailingHyphenKept ==
    (Decoded /\ prop # None /\ Len(attr) >= 6 /\ attr[Len(attr)] = 45) =>
        /\ Len(prop[1]) >= 1
        /\ prop[1][Len(prop[1])] = 45
        /\ attr = <<100, 97, 116, 97, 45, 97, 45>> => prop = Some(<<97, 45>>)

\* "data-a-" has been decoded to "a-"
C11_Witness ==
    /\ pc = "decoded"
    /\ attr = <<100, 97, 116, 97, 45, 97, 45>>
    /\ prop = Some(<<97, 45>>)

\* C12: decoding exactly "data-" gives the present, empty name Some(""), and
\* only the first five characters are stripped: a remainder that spells
\* "data-" is ordinary content, so "data-data-" decodes to Some("data-") and
\* every accepted "data-data-..." decodes to a name that begins with "data".
C12_EmptyRemainderAndSinglePrefix ==
    Decoded =>
        /\ attr = <<100, 97, 116, 97, 45>> => prop = Some(<<>>)
        /\ attr = <<100, 97, 116, 97, 45, 100, 97, 116, 97, 45>>
              => prop = Some(<<100, 97, 116, 97, 45>>)
        /\ (prop # None /\ HasDataPrefix(attr) /\ HasDataPrefix(SubSeq(attr, 6, Len(attr))))
              => /\ Len(prop[1]) >= 4
                 /\ SubSeq(prop[1], 1, 4) = <<100, 97, 116, 97>>

\* "data-data-" has been decoded to "data-"
C12_Witness ==
    /\ pc = "decoded"
    /\ attr = <<100, 97, 116, 97, 45, 100, 97, 116, 97, 45>>
    /\ prop = Some(<<100, 97, 116, 97, 45>>)

\* C13: the encoder is idempotent for no input: encoding an encoder output
\* only puts another "data-" in front of it, so the two always differ.
C13_ReencodingPrependsPrefix ==
    pc = "reencoded" =>
        /\ reattr # attr
        /\ reattr = <<100, 97, 116, 97, 45>> \o attr

\* the encoding of a name with an uppercase letter has been encoded again
C13_Witness ==
    /\ pc = "reencoded"
    /\ HasUpper(name)
    /\ reattr = <<100, 97, 116, 97, 45>> \o attr

-----------------------------------------------------------------------------
(* The dataset view and sequences of dataset calls *)

\* the decoder accepts the local name n: "data-" and no uppercase after it
AcceptedLocalName(n) ==
    HasDataPrefix(n) /\ ~\E i \in 6..Len(n) : IsUpperAZ(n[i])

\* the indices of the attributes with an accepted local name
AcceptedIndices(as) == {i \in 1..Len(as) : AcceptedLocalName(as[i].name)}

\* C15: supported_prop_names_custom_attr returns, in attribute order, exactly
\* the decoded names of the attributes whose local name the decoder accepts:
\* an attribute without "data-" or with an uppercase letter after it gives no
\* entry and every other attribute gives exactly one.
C15_ViewListsAcceptedAttributesInOrder ==
    pc = "names" =>
        /\ Len(props) = Cardinality(AcceptedIndices(attrs))
        /\ \A i \in AcceptedIndices(attrs) :
              LET k == Cardinality({j \in AcceptedIndices(attrs) : j <= i})
              IN  Some(props[k]) = to_camel_case(attrs[i].name)

\* the view of an element holding a refused attribute before two accepted ones
C15_Witness ==
    /\ pc = "names"
    /\ Len(attrs) = 3
    /\ ~AcceptedLocalName(attrs[1].name)
    /\ Len(props) = 2

\* the value stored under the attribute local name n, if any
StoredUnder(as, n) ==
    IF \E i \in 1..Len(as) : as[i].name = n
    THEN Some((CHOOSE a \in {as[i] : i \in 1..Len(as)} : a.name = n).value)
    ELSE None

\* the step is a successful set, or a delete, of the attribute of property n
WritesAttributeOf(n) ==
    /\ \/ pc' = "set" /\ res' = "Ok"
       \/ pc' = "delete"
    /\ to_snake_case(name') = to_snake_case(n)

\* C16: in a sequence of set, get and delete calls: right after a successful
\* set_custom_attr(n, v), and until the next successful set or delete of the
\* attribute to_snake_case(n), get_custom_attr(n) is Some(v); right after
\* delete_custom_attr(n), and until the next successful set, it is None; get and
\* delete apply no guard and return no error: get returns what is stored under
\* to_snake_case(n) and delete removes it, also for names the guard rejects.
C16_SetGetDelete ==
    /\ [](/\ (pc = "set" /\ res = "Ok") => StoredUnder(attrs, to_snake_case(name)) = Some(val)
          /\ pc = "delete" => StoredUnder(attrs, to_snake_case(name)) = None
          /\ pc = "get" => got = StoredUnder(attrs, to_snake_case(name)))
    /\ [][\A n \in ElemNames :
            /\ ~WritesAttributeOf(n)
                  => StoredUnder(attrs', to_snake_case(n)) = StoredUnder(attrs, to_snake_case(n))
            /\ (pc' = "delete" /\ StoredUnder(attrs, to_snake_case(n)) = None)
                  => StoredUnder(attrs', to_snake_case(n)) = None]_vars

\* get_custom_attr("foo-bar"), a name the guard rejects, has returned the value
\* that set_custom_attr stored under data-foo-bar
C16_Witness ==
    /\ pc = "get"
    /\ name = <<102, 111, 111, 45, 98, 97, 114>>
    /\ got = Some("v2")

-----------------------------------------------------------------------------
(* Click *)

\* the number of dispatches of element e in progress
InProgress(stack, e) == Cardinality({i \in 1..Len(stack) : stack[i] = e})

\* C17: for any sequence of Click calls, calls from inside click handlers
\* included: a disabled element dispatches no synthetic click event; a Click
\* made while the element's click-in-progress flag is set dispatches nothing
\* and leaves the flag set; at most one dispatch per element is in progress at
\* any time; and when the outermost Click has returned the flag is false, so
\* that a later Click on the enabled element dispatches again.
C17_ClickGuarded ==
    /\ [](\A e \in Elements :
            /\ InProgress(click_stack, e) <= 1
            /\ click_in_progress[e] <=> InProgress(click_stack, e) = 1)
    /\ [][clicks' = clicks + 1 =>
            \E e \in Elements :
               /\ \A o \in Elements \ {e} : fired'[o] = fired[o]
               /\ disabled[e] => (fired' = fired /\ click_stack' = click_stack)
               /\ click_in_progress[e]
                     => (fired' = fired /\ click_stack' = click_stack /\ click_in_progress'[e])
               /\ (~disabled[e] /\ ~click_in_progress[e])
                     => (fired'[e] = fired[e] + 1 /\ click_in_progress'[e])]_vars

\* a Click made from inside the click handler of the same element was ignored
C17_Witness ==
    /\ last_click = "in_progress"
    /\ click_stack # <<>>
    /\ \E e \in Elements : fired[e] >= 2

-----------------------------------------------------------------------------
(* The window-reflecting event handlers *)

BodyOrFrameset == kind \in {"body", "frameset"}

\* C18: for onerror, onload, onblur, onfocus, onresize and onscroll: on a body
\* or frameset element the getter and the setter act on the document's window
\* when the document has a browsing context; without one the setter changes
\* neither the element's nor the window's handler and the getter returns None,
\* so that a Set followed by a Get returns None; on every other element the
\* handler is stored on and read from the element's own event target and the
\* window is unchanged.
C18_WindowReflectingHandlers ==
    /\ [](h_op = "get" =>
            /\ (BodyOrFrameset /\ has_bc) => h_ret = win_handlers[h_ev]
            /\ (BodyOrFrameset /\ ~has_bc) => h_ret = None
            /\ ~BodyOrFrameset => h_ret = el_handlers[h_ev])
    /\ [][h_op' = "set" =>
            /\ (BodyOrFrameset /\ has_bc)
                  => /\ win_handlers' = [win_handlers EXCEPT ![h_ev'] = h_arg']
                     /\ el_handlers' = el_handlers
            /\ (BodyOrFrameset /\ ~has_bc)
                  => /\ win_handlers' = win_handlers
                     /\ el_handlers' = el_handlers
            /\ ~BodyOrFrameset
                  => /\ el_handlers' = [el_handlers EXCEPT ![h_ev'] = h_arg']
                     /\ win_handlers' = win_handlers]_vars
    /\ [][(h_op = "set" /\ h_op' = "get" /\ BodyOrFrameset /\ ~has_bc)
            => h_ret' = None]_vars

\* on a body element without a browsing context the getter has returned None for
\* an event whose handler the window and the element's own target both hold
C18_Witness ==
    /\ h_op = "get"
    /\ kind = "body"
    /\ ~has_bc
    /\ win_handlers[h_ev] # None
    /\ el_handlers[h_ev] # None
    /\ h_ret = None

-----------------------------------------------------------------------------
(* SetInnerText *)

\* the positions of s that are not the line feed of a CR LF pair
KeptPositions(s) == {i \in 1..Len(s) : ~(s[i] = 10 /\ i > 1 /\ s[i - 1] = 13)}

\* the positions of s where a line break starts: a CR, or an LF not after a CR
LineBreaks(s) == {i \in KeptPositions(s) : s[i] \in {10, 13}}

\* s with every line break (LF, lone CR, CR LF) written as one LF
WithBreaksAsLF(s) ==
    LET kept == KeptPositions(s)
        at(k) == CHOOSE i \in kept : Cardinality({j \in kept : j <= i}) = k
    IN  [k \in 1..Cardinality(kept) |-> IF s[at(k)] = 13 THEN 10 ELSE s[at(k)]]

\* the nodes written out in order: a text node as its data, a br as one LF
RECURSIVE Flattened(_)
Flattened(nodes) ==
    IF nodes = <<>> THEN <<>>
    ELSE (IF Head(nodes).kind = "br" THEN <<10>> ELSE Head(nodes).data)
         \o Flattened(Tail(nodes))

\* C19: SetInnerText(input) replaces the element's children by a sequence built
\* from the input in order: one br per line break (a lone LF, a lone CR, or a
\* CR LF pair counted once) and one text node per maximal non-empty run of
\* other characters, holding that run; never an empty text node; no children
\* at all for the empty input.
C19_InnerTextChildren ==
    text_pc = "done" =>
        /\ Flattened(children) = WithBreaksAsLF(input)
        /\ Cardinality({i \in 1..Len(children) : children[i].kind = "br"})
              = Cardinality(LineBreaks(input))
        /\ \A i \in 1..Len(children) :
              /\ children[i].kind \in {"br", "text"}
              /\ children[i].kind = "text" =>
                    /\ children[i].data # <<>>
                    /\ \A j \in 1..Len(children[i].data) : children[i].data[j] \notin {10, 13}
                    /\ i < Len(children) => children[i + 1].kind = "br"
        /\ input = <<>> => children = <<>>

\* an input with text, a CR LF pair and more text has become text, br, text
C19_Witness ==
    /\ text_pc = "done"
    /\ \E i \in 1..(Len(input) - 1) : input[i] = 13 /\ input[i + 1] = 10
    /\ Len(children) = 3
    /\ children[1].kind = "text" /\ children[2].kind = "br" /\ children[3].kind = "text"

-----------------------------------------------------------------------------
(* The activation behaviour of summary elements *)

\* the element has a parent, the parent is a details element, and no element
\* child before the element is named summary while the element itself is
FirstSummaryOfDetails ==
    /\ parent_kind = "details"
    /\ self_at \in 1..Len(siblings)
    /\ siblings[self_at] = ElementChild("summary")
    /\ \A j \in 1..(self_at - 1) : siblings[j] # ElementChild("summary")

\* C20: summary_activation_behavior toggles the parent details element exactly
\* once if and only if the element has a parent, the parent is a details
\* element and the element is the parent's first element child named summary;
\* otherwise it changes nothing; and it never unwraps a missing or non-details
\* parent.
C20_SummaryActivation ==
    /\ [](~panicked)
    /\ [][activations' = activations + 1 =>
            /\ UNCHANGED <<parent_kind, siblings, self_at>>
            /\ IF FirstSummaryOfDetails
               THEN toggles' = toggles + 1 /\ details_open' = ~details_open
               ELSE toggles' = toggles /\ details_open' = details_open]_vars

\* the first of two summary children, placed after a text node, has toggled
\* its details parent once
C20_Witness ==
    /\ activations = 1 /\ toggles = 1
    /\ parent_kind = "details"
    /\ self_at = 2 /\ siblings[1] = TextChild
    /\ Len(siblings) = 3 /\ siblings[3] = ElementChild("summary")

-----------------------------------------------------------------------------
(* to_css_identifier *)

IsUpperLetter(c) == (c >= 65 /\ c <= 90) \/ c = 201

LowerOf(c) == IF IsUpperLetter(c) THEN c + 32 ELSE c

\* s without its trailing underscores
WithoutTrailingUnderscores(s) ==
    LET keep == {i \in 1..Len(s) : s[i] # 95}
    IN  SubSeq(s, 1, IF keep = {} THEN 0 ELSE CHOOSE i \in keep : \A j \in keep : j <= i)

\* the positions of t where a camel segment other than the first starts
SegmentStarts(t) == {i \in 2..Len(t) : IsUpperLetter(t[i])}

\* the first camel segment of t
FirstSegment(t) ==
    LET starts == SegmentStarts(t)
    IN  SubSeq(t, 1, IF starts = {} THEN Len(t)
                     ELSE (CHOOSE i \in starts : \A j \in starts : i <= j) - 1)

\* "Moz", "Webkit", "Servo"
IsVendor(seg) ==
    \/ seg = <<77, 111, 122>>
    \/ seg = <<87, 101, 98, 107, 105, 116>>
    \/ seg = <<83, 101, 114, 118, 111>>

\* t from position i on, in lowercase, with '-' before every segment but the
\* first, and before the first too when lead holds
RECURSIVE Hyphenated(_, _, _)
Hyphenated(t, i, lead) ==
    IF i > Len(t) THEN <<>>
    ELSE (IF i \in SegmentStarts(t) \/ (i = 1 /\ lead) THEN <<45>> ELSE <<>>)
         \o <<LowerOf(t[i])>> \o Hyphenated(t, i + 1, lead)

RECURSIVE Concatenated(_)
Concatenated(segs) == IF segs = <<>> THEN <<>> ELSE Head(segs) \o Concatenated(Tail(segs))

\* C14: to_css_identifier drops trailing underscores, splits the rest into
\* camel segments (each but possibly the first starting at an uppercase
\* letter), lowercases them and joins them with '-'; the result starts with
\* '-' exactly when the first segment is "Moz", "Webkit" or "Servo"; every
\* split takes at least one character, so the loop ends.
C14_CssIdentifier ==
    /\ [](css_pc = "done" =>
            LET t == WithoutTrailingUnderscores(ident) IN
            /\ Concatenated(segments) = t
            /\ \A k \in 1..Len(segments) :
                  /\ segments[k] # <<>>
                  /\ k > 1 => IsUpperLetter(segments[k][1])
                  /\ \A j \in 2..Len(segments[k]) : ~IsUpperLetter(segments[k][j])
            /\ css = Hyphenated(t, 1, t # <<>> /\ IsVendor(FirstSegment(t)))
            /\ (css # <<>> /\ css[1] = 45)
                  <=> (segments # <<>> /\ IsVendor(segments[1])))
    /\ [][(css_pc = "loop" /\ css_pc' = "loop") => Len(camel_case') < Len(camel_case)]_vars
    /\ <>(css_pc = "done")

\* "WebkitFoo" has become "-webkit-foo"
C14_Witness ==
    /\ css_pc = "done"
    /\ ident = <<87, 101, 98, 107, 105, 116, 70, 111, 111>>
    /\ css = <<45, 119, 101, 98, 107, 105, 116, 45, 102, 111, 111>>

-----------------------------------------------------------------------------
(* Decode, then encode; encoder outputs and the decoder *)

\* C21: decoding and then encoding is the identity on every attribute local
\* name the decoder accepts: when to_camel_case(a) = Some(p),
\* to_snake_case(p) = a.
C21_DecodeThenEncode ==
    pc = "decoded_encoded" => (prop # None /\ reattr = attr)

\* "data--a-" has been decoded to "A-" and encoded back to itself
C21_Witness ==
    /\ pc = "decoded_encoded"
    /\ attr = <<100, 97, 116, 97, 45, 45, 97, 45>>
    /\ prop = Some(<<65, 45>>)
    /\ reattr = attr

\* C24: every encoder output is accepted by the decoder: to_snake_case(s)
\* starts with "data-" and holds no uppercase ASCII letter, so
\* to_camel_case(to_snake_case(s)) is Some(_), never None.
C24_EncoderOutputAccepted ==
    /\ pc \in {"encoded", "roundtrip", "reencoded"} =>
          /\ HasDataPrefix(attr)
          /\ ~HasUpper(attr)
    /\ pc = "roundtrip" => (prop # None /\ Len(prop) = 1)

\* the encoding of "AZ", a name of uppercase letters only, has been decoded
C24_Witness ==
    /\ pc = "roundtrip"
    /\ name = <<65, 90>>
    /\ attr = <<100, 97, 116, 97, 45, 45, 97, 45, 122>>
    /\ prop # None

-----------------------------------------------------------------------------
(* Sequences of dataset calls: collisions and the listed names *)

\* the guard of set_custom_attr lets n through
GuardAccepts(n) == ~LowerPastFirstHyphen(n, 1)

\* the step is a set_custom_attr that succeeded, or a delete_custom_attr, under
\* a name the guard accepts
WritesUnderAcceptedName ==
    /\ \/ pc' = "set" /\ res' = "Ok"
       \/ pc' = "delete"
    /\ GuardAccepts(name')

\* the dataset view of an element with the attributes as lists n
Listed(as, n) ==
    \E k \in 1..Len(supported_prop_names_custom_attr(as)) :
        supported_prop_names_custom_attr(as)[k] = n

\* C22: distinct property names the guard of set_custom_attr accepts never map
\* to the same attribute name, so in any sequence of calls a set_custom_attr
\* or delete_custom_attr under one accepted name never overwrites or removes
\* the value stored under a different accepted name.
\* Fails for "-A" and "--a": the guard accepts both and both encode to
\* "data---a".
C22_AcceptedNamesDoNotCollide ==
    /\ []((pc = "set" /\ res = "Ok") =>
            \A m \in ElemNames :
                (GuardAccepts(m) /\ m # name) => to_snake_case(m) # to_snake_case(name))
    /\ [][WritesUnderAcceptedName =>
            \A m \in ElemNames :
                (GuardAccepts(m) /\ m # name')
                    => get_custom_attr(attrs', m) = get_custom_attr(attrs, m)]_vars

\* C23: after set_custom_attr(n, v) succeeds, supported_prop_names_custom_attr
\* of the element contains n, until that attribute is deleted.
\* Fails for "Z": it is stored as "data--z", which the view lists as "-z".
C23_SetNameListedUntilDeleted ==
    /\ []((pc = "set" /\ res = "Ok") => Listed(attrs, name))
    /\ [][\A n \in ElemNames :
            (Listed(attrs, n) /\ pc' # "delete") => Listed(attrs', n)]_vars

====
